---- MODULE Spec2Model ----
(***************************************************************************)
(* Mergington High School activities API (src/src/app.py, models.py,       *)
(* db.py): the Activity and Signup tables, startup seeding, and the list,  *)
(* signup and unregister request handlers.                                 *)
(*                                                                         *)
(* Two specifications share the same tables and the same helpers:          *)
(*   Spec            requests run one at a time, each handler is one step; *)
(*   SpecConcurrent  up to MaxInFlight handlers interleave between their   *)
(*                   reads and their commit.                               *)
(* In both, the process may be stopped and started again at any moment     *)
(* (Restart); the store is persistent, so on_startup then runs against     *)
(* whatever was committed.                                                 *)
(*                                                                         *)
(* Abstractions: created_at is not modelled; the seed list is cut to its   *)
(* first NumSeeded entries and capacities are capped at MaxCapacity.  A    *)
(* Signup's surrogate key only has to tell rows apart, and rows that       *)
(* differ in activity_id or email are apart already: the id of a Signup is *)
(* the least number that no stored or held row of the same (activity_id,   *)
(* email) carries.  The order in which a select returns rows is not        *)
(* modelled: a list of participants is the bag of its emails.              *)
(***************************************************************************)
EXTENDS Integers, Sequences, FiniteSets, Bags, TLC

\* ---------------------------------------------------------------- bounds
NumSeeded == 2
MaxCapacity == 3
MaxInFlight == 2

\* ---------------------------------------------------------------- inputs
ActivityNames == {"Chess Club", "Programming Class", "Unknown Club"}
Emails == {"new@x.edu", "x@y.edu"}

VARIABLES
    activities,     \* rows of table Activity
    signups,        \* rows of table Signup
    startup,        \* position of on_startup: [pc, i]
    inflight,       \* bag of handlers between their reads and their commit
    open_sessions,  \* sessions returned by get_session and not yet closed
    last            \* the response of the request that completed last

vars == <<activities, signups, startup, inflight, open_sessions, last>>

Min(a, b) == IF a <= b THEN a ELSE b

\* ------------------------------------------------------------- seed data
SeedData ==
    << [name |-> "Chess Club",
        description |-> "Learn strategies and compete in chess tournaments",
        schedule |-> "Fridays, 3:30 PM - 5:00 PM",
        max_participants |-> 12,
        participants |-> <<"michael@mergington.edu", "daniel@mergington.edu">>],
       [name |-> "Programming Class",
        description |-> "Learn programming fundamentals and build software projects",
        schedule |-> "Tuesdays and Thursdays, 3:30 PM - 4:30 PM",
        max_participants |-> 20,
        participants |-> <<"emma@mergington.edu", "sophia@mergington.edu">>],
       [name |-> "Gym Class",
        description |-> "Physical education and sports activities",
        schedule |-> "Mondays, Wednesdays, Fridays, 2:00 PM - 3:00 PM",
        max_participants |-> 30,
        participants |-> <<"john@mergington.edu", "olivia@mergington.edu">>],
       [name |-> "Soccer Team",
        description |-> "Join the school soccer team and compete in matches",
        schedule |-> "Tuesdays and Thursdays, 4:00 PM - 5:30 PM",
        max_participants |-> 22,
        participants |-> <<"liam@mergington.edu", "noah@mergington.edu">>],
       [name |-> "Basketball Team",
        description |-> "Practice and play basketball with the school team",
        schedule |-> "Wednesdays and Fridays, 3:30 PM - 5:00 PM",
        max_participants |-> 15,
        participants |-> <<"ava@mergington.edu", "mia@mergington.edu">>],
       [name |-> "Art Club",
        description |-> "Explore your creativity through painting and drawing",
        schedule |-> "Thursdays, 3:30 PM - 5:00 PM",
        max_participants |-> 15,
        participants |-> <<"amelia@mergington.edu", "harper@mergington.edu">>],
       [name |-> "Drama Club",
        description |-> "Act, direct, and produce plays and performances",
        schedule |-> "Mondays and Wednesdays, 4:00 PM - 5:30 PM",
        max_participants |-> 20,
        participants |-> <<"ella@mergington.edu", "scarlett@mergington.edu">>],
       [name |-> "Math Club",
        description |-> "Solve challenging problems and participate in math competitions",
        schedule |-> "Tuesdays, 3:30 PM - 4:30 PM",
        max_participants |-> 10,
        participants |-> <<"james@mergington.edu", "benjamin@mergington.edu">>],
       [name |-> "Debate Team",
        description |-> "Develop public speaking and argumentation skills",
        schedule |-> "Fridays, 4:00 PM - 5:30 PM",
        max_participants |-> 12,
        participants |-> <<"charlotte@mergington.edu", "henry@mergington.edu">>] >>

\* The seed the model runs with: the first NumSeeded entries of the source's
\* list, each capacity capped at MaxCapacity.
initial_activity_data ==
    [i \in 1..Min(NumSeeded, Len(SeedData)) |->
        [SeedData[i] EXCEPT !.max_participants = Min(@, MaxCapacity)]]

\* ------------------------------------------------------------ the tables
\* class Activity: id, name, description, schedule, max_participants.
Activity(id, name, description, schedule, max_participants) ==
    [id |-> id, name |-> name, description |-> description,
     schedule |-> schedule, max_participants |-> max_participants]

\* class Signup: id, activity_id, email.
Signup(id, activity_id, email) ==
    [id |-> id, activity_id |-> activity_id, email |-> email]

\* The row of a non-empty set of rows that the store returns first: the one
\* with the lowest id.
First(rows) == CHOOSE r \in rows : \A q \in rows : r.id <= q.id

\* The rows that handlers in flight have read and still refer to.
HeldRows ==
    {Signup(r.row_id, r.activity_id, r.email) :
        r \in {q \in BagToSet(inflight) : q.op = "unregister"}}

\* The id the store gives a new row of (activity_id, email): the least one
\* that none of the rows given carries for that pair.
NextId(rows, activity_id, email) ==
    CHOOSE n \in 1..(Cardinality(rows) + 1) :
        /\ Signup(n, activity_id, email) \notin rows
        /\ \A m \in 1..(n - 1) : Signup(m, activity_id, email) \in rows

\* select(Activity).where(Activity.name == activity_name)
ActivitiesNamed(acts, activity_name) == {a \in acts : a.name = activity_name}

\* select(Signup).where(Signup.activity_id == id).all()
SignupsOf(rows, activity_id) == {s \in rows : s.activity_id = activity_id}

\* Mutant: the participants of every activity, the where clause left out.
ParticipantsOf_AllRows(rows, activity_id) ==
    [e \in {s.email : s \in rows} |-> Cardinality({s \in rows : s.email = e})]

\* [s.email for s in signups], as a bag: one copy of the email per row
ParticipantsOf(rows, activity_id) ==
    [e \in {s.email : s \in SignupsOf(rows, activity_id)} |->
        Cardinality({s \in SignupsOf(rows, activity_id) : s.email = e})]

\* Mutant: the rows of the email in any activity, the activity_id test
\* left out of the where clause.
MatchingSignups_ByEmail(rows, activity_id, email) == {s \in rows : s.email = email}

\* select(Signup).where((activity_id == id) & (email == email))
MatchingSignups(rows, activity_id, email) ==
    {s \in rows : s.activity_id = activity_id /\ s.email = email}

\* --------------------------------------------------------------- responses
EmptyBody == [n \in {} |-> 0]

NoResponse ==
    [op |-> "none", activity_name |-> "", email |-> "", status |-> 0,
     detail |-> "", body |-> EmptyBody]

\* raise HTTPException(status_code, detail): the response carries the status
\* and the detail, not the arguments of the request.
HTTPException(op, status, detail) ==
    [op |-> op, activity_name |-> "", email |-> "",
     status |-> status, detail |-> detail, body |-> EmptyBody]

\* return {"message": f"... {email} ... {activity_name}"}: status 200
Message(op, activity_name, email) ==
    [op |-> op, activity_name |-> activity_name, email |-> email,
     status |-> 200, detail |-> "", body |-> EmptyBody]

\* ------------------------------------------------------------------- Init
Init ==
    /\ activities = {}
    /\ signups = {}
    /\ startup = [pc |-> "check", i |-> 0]
    /\ inflight = EmptyBag
    /\ open_sessions = 0
    /\ last = NoResponse

\* ---------------------------------------------------------------- startup
\* Mutant: seeding guarded by "fewer activities than the seed list has".
StartupCheck_Incomplete ==
    /\ startup.pc = "check"
    /\ IF Cardinality(activities) < Len(initial_activity_data)
       THEN /\ startup' = [pc |-> "activity", i |-> 1]
            /\ open_sessions' = open_sessions + 1
       ELSE /\ startup' = [pc |-> "done", i |-> 0]
            /\ open_sessions' = open_sessions
    /\ UNCHANGED <<activities, signups, inflight, last>>

\* on_startup, lines 94-97: create the tables, open the session, look for a
\* first Activity row; seed only when there is none.
StartupCheck ==
    /\ startup.pc = "check"
    /\ IF activities = {} /\ Len(initial_activity_data) > 0
       THEN /\ startup' = [pc |-> "activity", i |-> 1]
            /\ open_sessions' = open_sessions + 1
       ELSE /\ startup' = [pc |-> "done", i |-> 0]
            /\ open_sessions' = open_sessions
    /\ UNCHANGED <<activities, signups, inflight, last>>

\* on_startup, lines 100-107: add the Activity of seed entry i and commit.
SeedActivity ==
    /\ startup.pc = "activity"
    /\ LET info == initial_activity_data[startup.i]
       IN activities' = activities \cup
              {Activity(Cardinality(activities) + 1, info.name, info.description,
                        info.schedule, info.max_participants)}
    /\ startup' = [startup EXCEPT !.pc = "signups"]
    /\ UNCHANGED <<signups, inflight, open_sessions, last>>

\* Mutant: the Signups built before the Activity has its id.
SeedSignupRows_NoId(rows, activity_id, participants) ==
    rows \cup {Signup(1, 0, participants[k]) : k \in 1..Len(participants)}

\* Mutant: the loop over the participants left after the first one.
SeedSignupRows_FirstOnly(rows, activity_id, participants) ==
    IF participants = << >> THEN rows
    ELSE rows \cup {Signup(NextId(rows, activity_id, Head(participants)),
                           activity_id, Head(participants))}

\* The rows lines 109-111 add for the participants of one seed entry.
RECURSIVE SeedSignupRows(_, _, _)
SeedSignupRows(rows, activity_id, participants) ==
    IF participants = << >> THEN rows
    ELSE SeedSignupRows(
             rows \cup {Signup(NextId(rows, activity_id, Head(participants)),
                               activity_id, Head(participants))},
             activity_id, Tail(participants))

\* on_startup, lines 109-112: add the Signups of seed entry i and commit;
\* after the last entry the session is closed.
SeedSignups ==
    /\ startup.pc = "signups"
    /\ LET info == initial_activity_data[startup.i]
           act == First({a \in activities : a.name = info.name})
       IN signups' = SeedSignupRows(signups, act.id, info.participants)
    /\ IF startup.i < Len(initial_activity_data)
       THEN /\ startup' = [pc |-> "activity", i |-> startup.i + 1]
            /\ open_sessions' = open_sessions
       ELSE /\ startup' = [pc |-> "done", i |-> 0]
            /\ open_sessions' = open_sessions - 1
    /\ UNCHANGED <<activities, inflight, last>>

\* The process is stopped and started again: uncommitted work and open
\* sessions are gone, the store stays, on_startup runs again.
Restart ==
    /\ startup' = [pc |-> "check", i |-> 0]
    /\ inflight' = EmptyBag
    /\ open_sessions' = 0
    /\ last' = NoResponse
    /\ UNCHANGED <<activities, signups>>

Serving == startup.pc = "done"

\* ---------------------------------------------------------- get_activities
\* The row a dict keyed by name keeps for a key: the last one assigned.
LastRow(rows) == CHOOSE r \in rows : \A q \in rows : q.id <= r.id

\* get_activities, lines 126-138: the mapping name -> projection.
ActivitiesBody(acts, rows) ==
    [n \in {a.name : a \in acts} |->
        LET act == LastRow(ActivitiesNamed(acts, n))
        IN [description |-> act.description,
            schedule |-> act.schedule,
            max_participants |-> act.max_participants,
            participants |-> ParticipantsOf(rows, act.id)]]

\* GET /activities: one session, reads only.
get_activities ==
    /\ Serving
    /\ last' = [op |-> "list", activity_name |-> "", email |-> "", status |-> 200,
                detail |-> "", body |-> ActivitiesBody(activities, signups)]
    /\ UNCHANGED <<activities, signups, startup, inflight, open_sessions>>

\* ------------------------------------------------------ signup_for_activity
\* Mutant: the duplicate check left out.
AlreadySignedUp_Skipped(email, participants) == FALSE

\* line 152: email in participants
AlreadySignedUp(email, participants) == BagIn(email, participants)

\* Mutant: the capacity comparison off by one.
IsFull_OffByOne(participants, activity) ==
    BagCardinality(participants) > activity.max_participants

\* line 155: len(participants) >= activity.max_participants
IsFull(participants, activity) ==
    BagCardinality(participants) >= activity.max_participants

\* Mutant: the capacity check made before the duplicate check.
SignupCheck_FullFirst(acts, rows, activity_name, email) ==
    IF ActivitiesNamed(acts, activity_name) = {}
    THEN HTTPException("signup", 404, "Activity not found")
    ELSE LET activity == First(ActivitiesNamed(acts, activity_name))
             participants == ParticipantsOf(rows, activity.id)
         IN IF IsFull(participants, activity)
            THEN HTTPException("signup", 400, "Activity is full")
            ELSE IF AlreadySignedUp(email, participants)
            THEN HTTPException("signup", 400,
                               "Student is already signed up")
            ELSE Message("signup", activity_name, email)

\* signup_for_activity, lines 145-156: the reads and the three checks, in
\* the order of the code.  Status 200 means that every check passed.
SignupCheck(acts, rows, activity_name, email) ==
    IF ActivitiesNamed(acts, activity_name) = {}
    THEN HTTPException("signup", 404, "Activity not found")
    ELSE LET activity == First(ActivitiesNamed(acts, activity_name))
             participants == ParticipantsOf(rows, activity.id)
         IN IF AlreadySignedUp(email, participants)
            THEN HTTPException("signup", 400,
                               "Student is already signed up")
            ELSE IF IsFull(participants, activity)
            THEN HTTPException("signup", 400, "Activity is full")
            ELSE Message("signup", activity_name, email)

\* Mutant: a unique constraint on (activity_id, email) that drops the write.
AddSignup_Unique(rows, held, activity_id, email) ==
    IF MatchingSignups(rows, activity_id, email) # {}
    THEN rows
    ELSE rows \cup {Signup(NextId(rows \cup held, activity_id, email), activity_id, email)}

\* Mutant: the new row replaces the activity's rows instead of joining them.
AddSignup_Replaces(rows, held, activity_id, email) ==
    (rows \ SignupsOf(rows, activity_id))
        \cup {Signup(NextId(rows \cup held, activity_id, email), activity_id, email)}

\* signup_for_activity, lines 158-160: add the Signup row and commit.
AddSignup(rows, held, activity_id, email) ==
    rows \cup {Signup(NextId(rows \cup held, activity_id, email), activity_id, email)}

\* Mutant: the row added and committed before the capacity check.
SignupRows_AddBeforeCheck(acts, rows, activity_name, email) ==
    IF SignupCheck(acts, rows, activity_name, email).status = 200
       \/ SignupCheck(acts, rows, activity_name, email).detail = "Activity is full"
    THEN AddSignup(rows, {}, First(ActivitiesNamed(acts, activity_name)).id, email)
    ELSE rows

\* signup_for_activity, lines 144-161: table Signup after the handler ran
\* without interruption.
SignupRows(acts, rows, activity_name, email) ==
    IF SignupCheck(acts, rows, activity_name, email).status = 200
    THEN AddSignup(rows, {}, First(ActivitiesNamed(acts, activity_name)).id, email)
    ELSE rows

\* Mutant: a successful signup takes a seat off the activity's capacity.
signup_for_activity_TakesSeat(activity_name, email) ==
    /\ Serving
    /\ inflight = EmptyBag
    /\ last' = SignupCheck(activities, signups, activity_name, email)
    /\ signups' = SignupRows(activities, signups, activity_name, email)
    /\ activities' =
        IF SignupCheck(activities, signups, activity_name, email).status = 200
        THEN {IF a.name = activity_name
              THEN [a EXCEPT !.max_participants = @ - 1] ELSE a : a \in activities}
        ELSE activities
    /\ UNCHANGED <<startup, inflight, open_sessions>>

\* POST /activities/{activity_name}/signup, run without interruption.
signup_for_activity(activity_name, email) ==
    /\ Serving
    /\ inflight = EmptyBag
    /\ last' = SignupCheck(activities, signups, activity_name, email)
    /\ signups' = SignupRows(activities, signups, activity_name, email)
    /\ UNCHANGED <<activities, startup, inflight, open_sessions>>

\* ------------------------------------------------- unregister_from_activity
\* unregister_from_activity, lines 168-176: the reads and the two checks.
UnregisterCheck(acts, rows, activity_name, email) ==
    IF ActivitiesNamed(acts, activity_name) = {}
    THEN HTTPException("unregister", 404, "Activity not found")
    ELSE LET activity == First(ActivitiesNamed(acts, activity_name))
         IN IF MatchingSignups(rows, activity.id, email) = {}
            THEN HTTPException("unregister", 400,
                               "Student is not signed up for this activity")
            ELSE Message("unregister", activity_name, email)

\* Mutant: every row of the student deleted, whatever the activity.
DeleteSignup_ByEmail(rows, row) == {s \in rows : s.email # row.email}

\* Mutant: the delete never committed.
DeleteSignup_NoCommit(rows, row) == rows

\* unregister_from_activity, lines 178-179: delete the row read and commit.
\* A row that is gone by then deletes nothing.
DeleteSignup(rows, row) == rows \ {row}

\* unregister_from_activity, lines 167-180: table Signup after the handler
\* ran without interruption.
UnregisterRows(acts, rows, activity_name, email) ==
    IF UnregisterCheck(acts, rows, activity_name, email).status = 200
    THEN DeleteSignup(rows,
            First(MatchingSignups(rows,
                First(ActivitiesNamed(acts, activity_name)).id, email)))
    ELSE rows

\* DELETE /activities/{activity_name}/unregister, run without interruption.
unregister_from_activity(activity_name, email) ==
    /\ Serving
    /\ inflight = EmptyBag
    /\ last' = UnregisterCheck(activities, signups, activity_name, email)
    /\ signups' = UnregisterRows(activities, signups, activity_name, email)
    /\ UNCHANGED <<activities, startup, inflight, open_sessions>>

\* ------------------------------------------------- interleaved handlers
\* A handler that has done its reads and checks and has not committed yet.
Pending(op, activity_name, email, activity_id, row_id) ==
    [op |-> op, activity_name |-> activity_name, email |-> email,
     activity_id |-> activity_id, row_id |-> row_id]

\* Mutant: the session left open when a check raises.
SignupRead_LeakOnError(activity_name, email) ==
    /\ Serving
    /\ BagCardinality(inflight) < MaxInFlight
    /\ LET resp == SignupCheck(activities, signups, activity_name, email)
       IN IF resp.status = 200
          THEN /\ inflight' = inflight (+) SetToBag({Pending("signup", activity_name, email,
                        First(ActivitiesNamed(activities, activity_name)).id, 0)})
               /\ open_sessions' = open_sessions + 1
               /\ last' = last
          ELSE /\ last' = resp
               /\ open_sessions' = Min(open_sessions + 1, MaxInFlight + 1)
               /\ UNCHANGED inflight
    /\ UNCHANGED <<activities, signups, startup>>

\* signup_for_activity, lines 144-156: open the session, read, check.  An
\* error is raised at once; otherwise the handler is left before line 158.
SignupRead(activity_name, email) ==
    /\ Serving
    /\ BagCardinality(inflight) < MaxInFlight
    /\ LET resp == SignupCheck(activities, signups, activity_name, email)
       IN IF resp.status = 200
          THEN /\ inflight' = inflight (+) SetToBag({Pending("signup", activity_name, email,
                        First(ActivitiesNamed(activities, activity_name)).id, 0)})
               /\ open_sessions' = open_sessions + 1
               /\ last' = last
          ELSE /\ last' = resp
               /\ UNCHANGED <<inflight, open_sessions>>
    /\ UNCHANGED <<activities, signups, startup>>

\* signup_for_activity, lines 158-161: add, commit, return, close the session.
SignupCommit(r) ==
    /\ r \in BagToSet(inflight)
    /\ r.op = "signup"
    /\ signups' = AddSignup(signups, HeldRows, r.activity_id, r.email)
    /\ inflight' = inflight (-) SetToBag({r})
    /\ open_sessions' = open_sessions - 1
    /\ last' = Message("signup", r.activity_name, r.email)
    /\ UNCHANGED <<activities, startup>>

\* unregister_from_activity, lines 167-176: open the session, read, check.
UnregisterRead(activity_name, email) ==
    /\ Serving
    /\ BagCardinality(inflight) < MaxInFlight
    /\ LET resp == UnregisterCheck(activities, signups, activity_name, email)
       IN IF resp.status = 200
          THEN /\ inflight' = inflight (+) SetToBag({Pending("unregister", activity_name, email,
                        First(ActivitiesNamed(activities, activity_name)).id,
                        First(MatchingSignups(signups,
                            First(ActivitiesNamed(activities, activity_name)).id,
                            email)).id)})
               /\ open_sessions' = open_sessions + 1
               /\ last' = last
          ELSE /\ last' = resp
               /\ UNCHANGED <<inflight, open_sessions>>
    /\ UNCHANGED <<activities, signups, startup>>

\* unregister_from_activity, lines 178-180: delete, commit, return, close.
UnregisterCommit(r) ==
    /\ r \in BagToSet(inflight)
    /\ r.op = "unregister"
    /\ signups' = DeleteSignup(signups, Signup(r.row_id, r.activity_id, r.email))
    /\ inflight' = inflight (-) SetToBag({r})
    /\ open_sessions' = open_sessions - 1
    /\ last' = Message("unregister", r.activity_name, r.email)
    /\ UNCHANGED <<activities, startup>>

\* --------------------------------------------------------- specifications
on_startup == StartupCheck \/ SeedActivity \/ SeedSignups

Next ==
    \/ on_startup
    \/ Restart
    \/ get_activities
    \/ \E n \in ActivityNames, e \in Emails : signup_for_activity(n, e)
    \/ \E n \in ActivityNames, e \in Emails : unregister_from_activity(n, e)

Spec == Init /\ [][Next]_vars

NextConcurrent ==
    \/ on_startup
    \/ Restart
    \/ get_activities
    \/ \E n \in ActivityNames, e \in Emails : SignupRead(n, e)
    \/ \E r \in BagToSet(inflight) : SignupCommit(r)
    \/ \E n \in ActivityNames, e \in Emails : UnregisterRead(n, e)
    \/ \E r \in BagToSet(inflight) : UnregisterCommit(r)

SpecConcurrent == Init /\ [][NextConcurrent]_vars

\* One run of the process, never stopped: the server calls on_startup once
\* and runs it to its end before it serves a request (weak fairness of
\* on_startup); the handlers then interleave as in SpecConcurrent.
NextUninterrupted ==
    \/ on_startup
    \/ get_activities
    \/ \E n \in ActivityNames, e \in Emails : SignupRead(n, e)
    \/ \E r \in BagToSet(inflight) : SignupCommit(r)
    \/ \E n \in ActivityNames, e \in Emails : UnregisterRead(n, e)
    \/ \E r \in BagToSet(inflight) : UnregisterCommit(r)

SpecUninterrupted == Init /\ [][NextUninterrupted]_vars /\ WF_vars(on_startup)


\* ======================================================================
\* Properties
\* ======================================================================
RowsOf(a) == {s \in signups : s.activity_id = a.id}

RowsOfPair(a, e) == {s \in signups : s.activity_id = a.id /\ s.email = e}

\* The (activity_id, email) pairs of a set of Signup rows.
Pairs(rows) == {<<s.activity_id, s.email>> : s \in rows}

NotFound(op) == HTTPException(op, 404, "Activity not found")
Duplicate == HTTPException("signup", 400, "Student is already signed up")
Full == HTTPException("signup", 400, "Activity is full")
NotSignedUp ==
    HTTPException("unregister", 400, "Student is not signed up for this activity")

\* C1: with requests run one at a time, no activity ever has more Signup rows
\* than max_participants, and a signup for an activity whose row count is at
\* least max_participants, by an email that is not signed up for it, is
\* answered 400 "Activity is full" and adds no row.
C1_CapacityRespected ==
    /\ [](\A a \in activities : Cardinality(RowsOf(a)) <= a.max_participants)
    /\ [][\A n \in ActivityNames, e \in Emails : \A a \in activities :
            ( /\ signup_for_activity(n, e)
              /\ a.name = n
              /\ Cardinality(RowsOf(a)) >= a.max_participants
              /\ RowsOfPair(a, e) = {} )
            => (last' = Full /\ signups' = signups)]_vars

\* C1 witness: a signup has just been turned away from a full activity.
C1_Witness ==
    /\ last = Full
    /\ \E a \in activities : Cardinality(RowsOf(a)) = a.max_participants

\* C2: with requests run one at a time, every (activity, email) pair has at
\* most one Signup row, and a signup for a pair that has a row is answered
\* 400 "Student is already signed up" and creates no row.
C2_PairUnique ==
    /\ [](\A s, t \in signups :
            (s.activity_id = t.activity_id /\ s.email = t.email) => s = t)
    /\ [][\A n \in ActivityNames, e \in Emails : \A a \in activities :
            ( /\ signup_for_activity(n, e)
              /\ a.name = n
              /\ RowsOfPair(a, e) # {} )
            => (last' = Duplicate /\ signups' = signups)]_vars

\* C2 witness: a second signup for a stored pair has just been turned away.
C2_Witness ==
    /\ last = Duplicate
    /\ \E a \in activities, e \in Emails : Cardinality(RowsOfPair(a, e)) = 1

\* C3: when signup handlers interleave, a handler whose checks pass on the
\* committed rows is let through whatever the other handlers in flight are
\* about to write, and every handler that was let through commits its row:
\* the store rejects no write, not even one that exceeds max_participants
\* or repeats an (activity, email) pair.
C3_RaceCommitsBoth ==
    [][ /\ \A n \in ActivityNames, e \in Emails :
            ( /\ SignupRead(n, e)
              /\ \E a \in activities :
                    /\ a.name = n
                    /\ RowsOfPair(a, e) = {}
                    /\ Cardinality(RowsOf(a)) < a.max_participants )
            => BagCardinality(inflight') = BagCardinality(inflight) + 1
        /\ \A r \in BagToSet(inflight) :
            SignupCommit(r)
            => /\ Cardinality(signups') = Cardinality(signups) + 1
               /\ signups \subseteq signups'
               /\ \A s \in signups' \ signups :
                    s.activity_id = r.activity_id /\ s.email = r.email
               /\ last' = Message("signup", r.activity_name, r.email) ]_vars

\* C3 witness: one activity holds more rows than max_participants, all of
\* different emails, and some (activity, email) pair has two rows.
C3_Witness ==
    /\ \E a \in activities :
        /\ Cardinality(RowsOf(a)) > a.max_participants
        /\ \A s, t \in RowsOf(a) : s.email = t.email => s = t
    /\ \E s, t \in signups :
        s # t /\ s.activity_id = t.activity_id /\ s.email = t.email

\* The answer C4 prescribes for signup(n, e) in the current state.
C4_Expected(n, e) ==
    IF \A a \in activities : a.name # n THEN NotFound("signup")
    ELSE LET a == CHOOSE a \in activities : a.name = n
         IN IF RowsOfPair(a, e) # {} THEN Duplicate
            ELSE IF Cardinality(RowsOf(a)) >= a.max_participants THEN Full
            ELSE Message("signup", n, e)

\* C4: signup reports the first failing precondition in the order activity
\* missing (404), already signed up (400), full (400), and answers 200
\* exactly when none of the three fails.
C4_CheckOrder ==
    [][\A n \in ActivityNames, e \in Emails :
        signup_for_activity(n, e)
        => /\ last' = C4_Expected(n, e)
           /\ (last'.status = 200) <=>
                \E a \in activities :
                    /\ a.name = n
                    /\ RowsOfPair(a, e) = {}
                    /\ Cardinality(RowsOf(a)) < a.max_participants]_vars

\* C4 witness: "already signed up" was answered while every activity is full.
C4_Witness ==
    /\ last = Duplicate
    /\ activities # {}
    /\ \A a \in activities : Cardinality(RowsOf(a)) >= a.max_participants

\* C5: a successful signup(A, e) adds exactly one Signup row, of A's id and
\* of email e, and changes no Activity row and no other Signup row.
C5_SignupFrame ==
    [][\A n \in ActivityNames, e \in Emails :
        (signup_for_activity(n, e) /\ last'.status = 200)
        => /\ activities' = activities
           /\ signups \subseteq signups'
           /\ Cardinality(signups' \ signups) = 1
           /\ \A s \in signups' \ signups :
                /\ s.email = e
                /\ \E a \in activities : a.name = n /\ a.id = s.activity_id]_vars

\* C5 witness: a signup succeeded for an activity that had rows before, while
\* another activity has rows too.
C5_Witness ==
    /\ last.op = "signup"
    /\ last.status = 200
    /\ \E a, b \in activities :
        /\ a # b
        /\ a.name = last.activity_name
        /\ Cardinality(RowsOf(a)) >= 2
        /\ RowsOf(b) # {}

\* C6: unregister answers 404 when no activity has the name, else 400 "not
\* signed up" when no row matches (activity_id, email); else it deletes
\* exactly one row, a row of that pair, changes nothing else, and (no pair
\* being duplicated) the email is gone from the activity's listed participants.
C6_Unregister ==
    [][\A n \in ActivityNames, e \in Emails :
        unregister_from_activity(n, e)
        => /\ activities' = activities
           /\ (\A a \in activities : a.name # n)
                => (last' = NotFound("unregister") /\ signups' = signups)
           /\ \A a \in activities :
                a.name = n
                => /\ RowsOfPair(a, e) = {}
                        => (last' = NotSignedUp /\ signups' = signups)
                   /\ RowsOfPair(a, e) # {}
                        => /\ last' = Message("unregister", n, e)
                           /\ signups' \subseteq signups
                           /\ Cardinality(signups \ signups') = 1
                           /\ (signups \ signups') \subseteq RowsOfPair(a, e)
                           /\ Cardinality(RowsOfPair(a, e)) = 1
                                => ~BagIn(e, ActivitiesBody(activities', signups')[n]
                                                .participants)]_vars

\* C6 witness: an unregister succeeded and the same email still has its row
\* in another activity.
C6_Witness ==
    /\ last.op = "unregister"
    /\ last.status = 200
    /\ \E a, b \in activities :
        /\ a.name = last.activity_name
        /\ b # a
        /\ RowsOfPair(a, last.email) = {}
        /\ RowsOfPair(b, last.email) # {}

\* C7: right after a successful signup(A, e), unregister(A, e) succeeds and
\* leaves the (activity_id, email) pairs of the Signup table as they were
\* before the signup.
C7_RoundTrip ==
    [][\A n \in ActivityNames, e \in Emails :
        (signup_for_activity(n, e) /\ last'.status = 200)
        => /\ UnregisterCheck(activities', signups', n, e) = Message("unregister", n, e)
           /\ Pairs(UnregisterRows(activities', signups', n, e)) = Pairs(signups)
           /\ Pairs(signups') # Pairs(signups)]_vars

\* C7 witness: an unregister succeeded and no pair of a request email is
\* left in the fully seeded store.
C7_Witness ==
    /\ last.op = "unregister"
    /\ last.status = 200
    /\ Cardinality(activities) = Len(initial_activity_data)
    /\ \A a \in activities : Cardinality(RowsOf(a)) = 2
    /\ \A a \in activities, e \in Emails : RowsOfPair(a, e) = {}

\* C8: a signup or unregister that is answered 404 or 400 leaves both tables
\* as they were.
C8_ErrorsChangeNothing ==
    [][\A n \in ActivityNames, e \in Emails :
        ( /\ signup_for_activity(n, e) \/ unregister_from_activity(n, e)
          /\ last'.status \in {400, 404} )
        => (signups' = signups /\ activities' = activities)]_vars

\* C8 witness: a request was turned away while a row added by a request is
\* stored.
C8_Witness ==
    /\ last.status \in {400, 404}
    /\ \E a \in activities, e \in Emails : RowsOfPair(a, e) # {}

\* C9: on_startup seeds exactly when the Activity table is empty: a run that
\* finds any Activity row ends at once and writes nothing, so Activity names
\* never repeat and a partly seeded store stays partial; a run that finds
\* none starts seeding with the first seed entry and does not end with an
\* empty table.
C9_SeedGuard ==
    /\ [][(on_startup /\ startup.pc = "check")
            => IF activities # {}
               THEN /\ startup'.pc = "done"
                    /\ activities' = activities
                    /\ signups' = signups
               ELSE /\ startup'.pc = "activity"
                    /\ startup'.i = 1]_vars
    /\ [][(on_startup /\ startup.pc = "activity")
            => /\ Cardinality(activities') = Cardinality(activities) + 1
               /\ \E a \in activities' \ activities :
                    a.name = initial_activity_data[startup.i].name]_vars
    /\ [](\A a, b \in activities : a.name = b.name => a = b)
    /\ [](Serving => activities # {})

\* C9 witness: startup has run to its end against a store that holds some
\* of the seed activities and not all.
C9_Witness ==
    /\ Serving
    /\ activities # {}
    /\ Cardinality(activities) < Len(initial_activity_data)

\* C10: list activities answers 200 with one key per stored Activity name;
\* under each key the stored description, schedule and max_participants and,
\* as participants, one copy of the email of every Signup row of that
\* activity and nothing else; it changes no row.
C10_ListActivities ==
    [][get_activities
        => /\ last'.op = "list"
           /\ last'.status = 200
           /\ DOMAIN last'.body = {a.name : a \in activities}
           /\ activities = {} => last'.body = EmptyBody
           /\ \A a \in activities :
                /\ last'.body[a.name].description = a.description
                /\ last'.body[a.name].schedule = a.schedule
                /\ last'.body[a.name].max_participants = a.max_participants
                /\ BagToSet(last'.body[a.name].participants) = {s.email : s \in RowsOf(a)}
                /\ \A e \in {s.email : s \in RowsOf(a)} :
                    CopiesIn(e, last'.body[a.name].participants)
                        = Cardinality(RowsOfPair(a, e))
           /\ activities' = activities
           /\ signups' = signups]_vars

\* C10 witness: a list was answered that shows a participant added by a
\* request under one activity and not under another.
C10_Witness ==
    /\ last.op = "list"
    /\ \E n, m \in DOMAIN last.body : \E e \in Emails :
        /\ BagIn(e, last.body[n].participants)
        /\ ~BagIn(e, last.body[m].participants)

\* The Activity table is past seeding: it holds rows and on_startup is not
\* between its check and its last commit.
Frozen == activities # {} /\ startup.pc \in {"check", "done"}

\* C11: once startup has finished, the Activity table never changes again:
\* no list, signup or unregister request, answered 200 or not, and no later
\* run of on_startup adds, deletes or alters an Activity row; no two
\* Activity rows ever share a name.
C11_ActivitiesFrozen ==
    /\ [](Serving => Frozen)
    /\ [][Frozen => (Frozen' /\ activities' = activities)]_vars
    /\ [][(get_activities
            \/ \E n \in ActivityNames, e \in Emails :
                    signup_for_activity(n, e) \/ unregister_from_activity(n, e))
          => activities' = activities]_vars
    /\ [](\A a, b \in activities : a # b => (a.name # b.name /\ a.id # b.id))

\* C11 witness: all seed activities are stored and a signup has succeeded.
C11_Witness ==
    /\ Serving
    /\ Cardinality(activities) = Len(initial_activity_data)
    /\ last.op = "signup"
    /\ last.status = 200
    /\ \A a \in activities : \E i \in DOMAIN initial_activity_data :
        /\ a.name = initial_activity_data[i].name
        /\ a.max_participants = initial_activity_data[i].max_participants

\* The sessions that handlers and on_startup hold open by rights: one per
\* handler in flight, one for on_startup while it seeds.
SessionsDue ==
    BagCardinality(inflight)
        + (IF startup.pc \in {"activity", "signups"} THEN 1 ELSE 0)

\* C12: every handler and on_startup holds exactly one session while it runs
\* and none after it ended, whether it returned or raised: the open sessions
\* are one per handler in flight plus one for a seeding on_startup, so none
\* is open when nothing is in flight.
C12_SessionsReleased ==
    /\ open_sessions = SessionsDue
    /\ (inflight = EmptyBag /\ startup.pc \in {"check", "done"}) => open_sessions = 0

\* C12 witness: handlers have interleaved (an activity is over capacity),
\* the last request was answered with an error, and nothing is in flight.
C12_Witness ==
    /\ Serving
    /\ inflight = EmptyBag
    /\ open_sessions = 0
    /\ last = Full
    /\ \E a \in activities : Cardinality(RowsOf(a)) > a.max_participants

\* C13: in every state, also between the commits of seeding and while
\* handlers interleave, the activity_id of every Signup row is the id of
\* exactly one Activity row.
C13_SignupsReferToActivities ==
    \A s \in signups : Cardinality({a \in activities : a.id = s.activity_id}) = 1

\* C13 witness: seeding stands between the commit of the second Activity and
\* the commit of its Signups.
C13_Witness ==
    /\ startup.pc = "signups"
    /\ startup.i >= 2
    /\ signups # {}

\* The Activity rows and the Signup pairs the seed list prescribes.
SeededActivities ==
    {Activity(i, initial_activity_data[i].name, initial_activity_data[i].description,
              initial_activity_data[i].schedule,
              initial_activity_data[i].max_participants) :
        i \in DOMAIN initial_activity_data}

SeededPairs(i) ==
    {<<i, initial_activity_data[i].participants[k]>> :
        k \in DOMAIN initial_activity_data[i].participants}

\* C14: on_startup, started on an empty store and not interrupted, ends;
\* each of its commits writes either the Activity of the next seed entry
\* (the entries before it complete, Signups included) or the Signups of the
\* Activity just committed; when it ends the store holds one Activity per
\* seed entry and one Signup per seed participant, no activity over its
\* capacity and no pair twice.
C14_SeedingRuns ==
    /\ <>Serving
    /\ [][SeedActivity
            => /\ signups' = signups
               /\ activities' \ activities =
                    {a \in SeededActivities : a.id = startup.i}
               /\ activities = {a \in SeededActivities : a.id < startup.i}
               /\ Pairs(signups) = UNION {SeededPairs(j) : j \in 1..(startup.i - 1)}]_vars
    /\ [][SeedSignups
            => /\ activities' = activities
               /\ activities = {a \in SeededActivities : a.id <= startup.i}
               /\ Pairs(signups' \ signups) = SeededPairs(startup.i)
               /\ Pairs(signups) = UNION {SeededPairs(j) : j \in 1..(startup.i - 1)}]_vars
    /\ [][(SeedSignups /\ startup'.pc = "done")
            => /\ activities' = SeededActivities
               /\ Pairs(signups') = UNION {SeededPairs(j) : j \in DOMAIN initial_activity_data}
               /\ Cardinality(signups') = Cardinality(Pairs(signups'))
               /\ \A a \in activities' :
                    Cardinality({s \in signups' : s.activity_id = a.id})
                        <= a.max_participants]_vars

\* C14 witness: on_startup has just ended and no request has been served.
C14_Witness ==
    /\ Serving
    /\ last = NoResponse
    /\ activities = SeededActivities
    /\ Cardinality(signups) = 2 * Len(initial_activity_data)

\* C15: whatever the interleaving of signup and unregister handlers, when an
\* unregister(A, e) has returned 200 and nothing is in flight, no Signup row
\* of (A, e) is stored and the list of activities does not show e under A.
C15_UnregisteredIsGone ==
    (last.op = "unregister" /\ last.status = 200 /\ inflight = EmptyBag)
    => \A a \in activities :
        a.name = last.activity_name
        => /\ RowsOfPair(a, last.email) = {}
           /\ ~BagIn(last.email,
                     ActivitiesBody(activities, signups)[a.name].participants)

\* C16: capacity bounds the rows stored now: after a successful unregister
\* from an activity that was full, a signup for that activity by any email
\* that has no row in it would be answered 200.
C16_SeatFreed ==
    [][\A n \in ActivityNames, e \in Emails : \A a \in activities :
        ( /\ unregister_from_activity(n, e)
          /\ last'.status = 200
          /\ a.name = n
          /\ a.max_participants > 0
          /\ Cardinality(RowsOf(a)) = a.max_participants )
        => \A e2 \in Emails :
            {s \in signups' : s.activity_id = a.id /\ s.email = e2} = {}
            => /\ SignupCheck(activities', signups', n, e2) = Message("signup", n, e2)
               /\ Cardinality(SignupRows(activities', signups', n, e2))
                    = Cardinality(signups)]_vars

\* C16 witness: an unregister has just succeeded on an activity that was
\* full, which now lacks one row to be full.
C16_Witness ==
    /\ last.op = "unregister"
    /\ last.status = 200
    /\ \E a \in activities :
        /\ a.name = last.activity_name
        /\ a.max_participants > 0
        /\ Cardinality(RowsOf(a)) = a.max_participants - 1

\* The Signup rows of the activities named n, and rows that other activities
\* could hold for the request emails.
OwnRows(n) ==
    {s \in signups : \E a \in activities : a.name = n /\ a.id = s.activity_id}

OtherRows(n) ==
    {Signup(1, b.id, e) : b \in {a \in activities : a.name # n}, e \in Emails}

\* C17: the answer of signup(A, e) and of unregister(A, e), and what they do
\* to A's rows, are those the handler gives in any store that holds the same
\* Activity rows and the same Signup rows of A, whatever rows the other
\* activities hold, rows of the same email included.
C17_PerActivity ==
    [][\A n \in ActivityNames, e \in Emails : \A others \in SUBSET OtherRows(n) :
        /\ signup_for_activity(n, e)
            => /\ last' = SignupCheck(activities, OwnRows(n) \cup others, n, e)
               /\ SignupRows(activities, OwnRows(n) \cup others, n, e) \ others
                    = signups' \ (signups \ OwnRows(n))
        /\ unregister_from_activity(n, e)
            => /\ last' = UnregisterCheck(activities, OwnRows(n) \cup others, n, e)
               /\ UnregisterRows(activities, OwnRows(n) \cup others, n, e) \ others
                    = signups' \ (signups \ OwnRows(n))]_vars

\* C17 witness: a signup succeeded for an email that has a row in every
\* activity, and there are at least two activities.
C17_Witness ==
    /\ last.op = "signup"
    /\ last.status = 200
    /\ Cardinality(activities) >= 2
    /\ \A a \in activities : RowsOfPair(a, last.email) # {}

====
